---- MODULE Spec2Model ----
(***************************************************************************)
(* Device transport and discovery layer of the home-automation backend:    *)
(*   - BoseEX440V3Integration      (src/Bose_ex440_integration.py)         *)
(*   - GlobalCacheItachIntegration (src/integration.py)                    *)
(*   - EmpireBridgeDiscovery       (src/empire_bridge_discovery.py)        *)
(*                                                                         *)
(* Text is modelled as a sequence of tokens: a token is either the         *)
(* separator "_" or a non-empty word without "_"; two words are never      *)
(* adjacent, so two token sequences are equal iff the strings are.         *)
(* Levels in dB are counted in halves of a dB (-10.0 dB is -20).           *)
(***************************************************************************)
EXTENDS Integers, Sequences, FiniteSets, TLC

VARIABLES
    connType,     \* config['connection']['type']
    zones,        \* config['zones']
    mqtt_client,  \* BaseIntegration.mqtt_client is set (TRUE) or None (FALSE)
    serial_conn,  \* self.serial_conn: 0 is None, otherwise a port handle
    writer,       \* self.writer (and self.reader): 0 is None, otherwise a stream handle
    live,         \* handles opened by the Bose instance and not closed since
    lastOp,       \* the last call on the Bose instance and what it did
    w_log,        \* what the serialized calls wrote and published, in order
    w_calls,      \* the serialized calls made so far, in order
    t_pc,         \* concurrent tasks: "idle", "draining", "done" or "raised" for each
    t_call,       \* the arguments of each task's call and what it has left to do
    t_wait,       \* the tasks suspended in writer.drain(), in the order they will resume
    t_log,        \* what the tasks wrote and published, in order, with the task
    sock,         \* iTach self.socket: 0 is None, otherwise a socket handle
    connected,    \* iTach self.connected
    itLive,       \* sockets created by the iTach instance and not closed since
    itOp,         \* the last call on the iTach instance and what it did
    d_family,     \* the discovery session running: "empire" or "itach"
    d_pc,         \* where the session is
    d_timeout,    \* its timeout argument, in ticks
    d_elapsed,    \* loop.time() - start_time, in ticks
    d_block,      \* how long the last recvfrom blocked, in ticks
    d_sock,       \* the UDP socket of the invocation: "none", "open" or "closed"
    d_devices,    \* the list devices
    d_received,   \* datagrams and socket errors recvfrom has delivered so far
    d_error,      \* the exception the invocation ended with, "none" otherwise
    d_last,       \* the datagram recvfrom returned last, with its sender
    \* one call of discover_all_bridges
    a_pc,         \* "idle", "empire", "itach", "returned" or "raised"
    a_import,     \* whether the iTach integration module can be imported
    a_results,    \* the results dictionary
    a_spent       \* ticks the sessions already awaited have taken

taskVars == <<t_pc, t_call, t_wait, t_log>>
boseVars ==
    <<connType, zones, mqtt_client, serial_conn, writer, live, lastOp, w_log, w_calls, taskVars>>
itachVars == <<sock, connected, itLive, itOp>>
discVars ==
    <<d_family, d_pc, d_timeout, d_elapsed, d_block, d_sock, d_devices, d_received, d_error,
      d_last>>
allVars == <<a_pc, a_import, a_results, a_spent>>
vars == <<boseVars, itachVars, discVars, allVars>>

----------------------------------------------------------------------------
(* Bounds                                                                  *)

\* handles a device instance can have open at once before the host refuses
MaxHandles == 2

----------------------------------------------------------------------------
(* Values and text                                                         *)

IntV(n) == [k |-> "int", n |-> n, b |-> FALSE]
FloatV(h) == [k |-> "float", n |-> h, b |-> FALSE]
BoolV(b) == [k |-> "bool", n |-> 0, b |-> b]
\* a non-empty string that is not a number, such as "abc"
TextV == [k |-> "str", n |-> 0, b |-> FALSE]
NoneV == [k |-> "none", n |-> 0, b |-> FALSE]

Abs(n) == IF n < 0 THEN -n ELSE n
Max(a, b) == IF a >= b THEN a ELSE b
Min(a, b) == IF a <= b THEN a ELSE b

\* float(value): [ok, h] with h in halves
ToFloat(v) ==
    CASE v.k = "int" -> [ok |-> TRUE, n |-> 2 * v.n]
      [] v.k = "float" -> [ok |-> TRUE, n |-> v.n]
      [] v.k = "bool" -> [ok |-> TRUE, n |-> IF v.b THEN 2 ELSE 0]
      [] OTHER -> [ok |-> FALSE, n |-> 0]

\* int(value): truncation toward zero
ToInt(v) ==
    CASE v.k = "int" -> [ok |-> TRUE, n |-> v.n]
      [] v.k = "float" -> [ok |-> TRUE, n |-> IF v.n < 0 THEN -(Abs(v.n) \div 2) ELSE v.n \div 2]
      [] v.k = "bool" -> [ok |-> TRUE, n |-> IF v.b THEN 1 ELSE 0]
      [] OTHER -> [ok |-> FALSE, n |-> 0]

\* bool(value)
ToBool(v) ==
    CASE v.k = "int" -> v.n # 0
      [] v.k = "float" -> v.n # 0
      [] v.k = "bool" -> v.b
      [] v.k = "str" -> TRUE
      [] OTHER -> FALSE

\* f"{level_db}" of a float that is a multiple of 0.5
FmtFloat(h) ==
    (IF h < 0 THEN "-" ELSE "") \o ToString(Abs(h) \div 2) \o "."
        \o (IF Abs(h) % 2 = 1 THEN "5" ELSE "0")

\* f"{source_num}" of an int
FmtInt(n) == (IF n < 0 THEN "-" ELSE "") \o ToString(Abs(n))

RECURSIVE Join(_)
\* the string a sequence of string pieces spells
Join(s) == IF s = <<>> THEN "" ELSE Head(s) \o Join(Tail(s))

\* str.replace("<CR>", "\r") on a command kept as pieces
ReplaceCR(cmd) == [i \in DOMAIN cmd |-> IF cmd[i] = "<CR>" THEN "\r" ELSE cmd[i]]

\* index of the first "_" of s, 0 when there is none
FirstSep(s) ==
    IF \E i \in DOMAIN s : s[i] = "_"
    THEN CHOOSE i \in DOMAIN s : s[i] = "_" /\ \A j \in 1..(i - 1) : s[j] # "_"
    ELSE 0

\* link_id.split('_', 1)
Split1(s) ==
    IF FirstSep(s) = 0 THEN <<s>>
    ELSE <<SubSeq(s, 1, FirstSep(s) - 1), SubSeq(s, FirstSep(s) + 1, Len(s))>>

----------------------------------------------------------------------------
(* Configuration                                                           *)

\* a zone field the configuration does not give
Absent == "<absent>"

Zone(id, vol, mute, src) ==
    [id |-> id, volume_module |-> vol, mute_module |-> mute, source_module |-> src]

\* zone ids are non-empty identifiers; one of them holds the separator
ZoneMaster == Zone(<<"master">>, "Main Volume", "Main Volume", "Selector 1")
ZoneLiving == Zone(<<"living", "_", "room">>, "Gain 2", Absent, Absent)
ZonePatio == Zone(<<"patio">>, Absent, "Mute 3", "Selector 3")

ZoneConfigs == { <<>>, <<ZoneMaster, ZoneLiving, ZonePatio>> }

ConnTypes == {"serial", "tcp", "bridge"}

\* config['connection']['bridge_id']
BridgeId == "b1"

\* zone.get(field, default)
GetOr(field, default) == IF field = Absent THEN default ELSE field

----------------------------------------------------------------------------
(* What a call did: the events of the call, in order                       *)

Ev(e, h, data, zone, param, value) ==
    [e |-> e, h |-> h, data |-> data, zone |-> zone, param |-> param, value |-> value]

\* a port or a stream was opened
EvOpen(h) == Ev("open", h, "", <<>>, "", NoneV)
\* bytes went to the port or stream h
EvWrite(h, data) == Ev("write", h, data, <<>>, "", NoneV)
\* mqtt_client.publish(topic, data)
EvRelay(topic, data) == Ev("relay", 0, data, <<>>, topic, NoneV)
\* a port or a stream was closed
EvClose(h) == Ev("close", h, "", <<>>, "", NoneV)
\* publish_state(zone, param, value)
EvPublish(zone, param, value) == Ev("publish", 0, "", zone, param, value)

\* the instance while a call runs on it
St(sc, w, lv, ev, r) ==
    [serial_conn |-> sc, writer |-> w, live |-> lv, events |-> ev, raised |-> r]

Raise(s, exc) == [s EXCEPT !.raised = exc]
Emit(s, ev) == [s EXCEPT !.events = Append(@, ev)]

\* what the network and the devices answer during one call
IOs == [conn : BOOLEAN, write : BOOLEAN, close : BOOLEAN]

\* a handle not in use
FreeHandles(s) == (1..MaxHandles) \ (s.live \cup {s.serial_conn, s.writer})
NewHandle(s) == CHOOSE h \in FreeHandles(s) : \A g \in FreeHandles(s) : h <= g

----------------------------------------------------------------------------
(* BoseEX440V3Integration: connection management                           *)

\* serial.Serial(port=..., baudrate=..., timeout=1, write_timeout=1)
ConnectSerial(s, io) ==
    IF io.conn /\ FreeHandles(s) # {}
    THEN Emit([s EXCEPT !.serial_conn = NewHandle(s), !.live = @ \cup {NewHandle(s)}],
              EvOpen(NewHandle(s)))
    ELSE Raise(s, "ConnectionError")

\* self.reader, self.writer = await asyncio.open_connection(host, port)
ConnectTcp(s, io) ==
    IF io.conn /\ FreeHandles(s) # {}
    THEN Emit([s EXCEPT !.writer = NewHandle(s), !.live = @ \cup {NewHandle(s)}],
              EvOpen(NewHandle(s)))
    ELSE Raise(s, "ConnectionError")

\* connect()
Connect(s, io) ==
    CASE connType = "serial" -> ConnectSerial(s, io)
      [] connType = "tcp" -> ConnectTcp(s, io)
      [] OTHER -> s

\* the serial half of disconnect(): close(), then serial_conn = None
DisconnectSerial(s, io) ==
    IF s.serial_conn # 0
    THEN IF io.close
         THEN Emit([s EXCEPT !.serial_conn = 0, !.live = @ \ {s.serial_conn}],
                   EvClose(s.serial_conn))
         ELSE Raise(s, "CloseError")
    ELSE s

\* the stream half of disconnect(): close(), wait_closed(), then writer = reader = None
DisconnectTcp(s, io) ==
    IF s.writer # 0
    THEN IF io.close
         THEN Emit([s EXCEPT !.writer = 0, !.live = @ \ {s.writer}], EvClose(s.writer))
         ELSE Raise(Emit([s EXCEPT !.live = @ \ {s.writer}], EvClose(s.writer)),
                    "CloseError")
    ELSE s

\* disconnect()
Disconnect(s, io) ==
    LET s1 == DisconnectSerial(s, io)
    IN IF s1.raised # "none" THEN s1 ELSE DisconnectTcp(s1, io)

\* the None that get_zone_config returns when no zone matches
NoneZone == Zone(<<"<None>">>, Absent, Absent, Absent)

\* get_zone_config(zone_id): the first zone with that id, or None
GetZoneConfig(zone_id) ==
    IF \E i \in DOMAIN zones : zones[i].id = zone_id
    THEN zones[CHOOSE i \in DOMAIN zones :
                 zones[i].id = zone_id /\ \A j \in 1..(i - 1) : zones[j].id # zone_id]
    ELSE NoneZone

----------------------------------------------------------------------------
(* BoseEX440V3Integration: low-level send                                  *)

\* hasattr(self, name): __init__ sets serial_conn, reader and writer (to None)
HasAttr(name) == name \in {"serial_conn", "reader", "writer"}

\* the guard of the implicit connect() of send_command
NeedsConnect(s) == ~HasAttr("serial_conn") /\ ~HasAttr("writer")

\* mutant: the data written a second time
WriteToTwice(s, h, data, io) ==
    IF io.write /\ h \in s.live
    THEN Emit(Emit(s, EvWrite(h, data)), EvWrite(h, data))
    ELSE Raise(s, "TransportError")

\* serial_conn.write(data) / writer.write(data); await writer.drain()
WriteTo(s, h, data, io) ==
    IF io.write /\ h \in s.live THEN Emit(s, EvWrite(h, data)) ELSE Raise(s, "TransportError")

\* the branches of send_command once the connection was looked at
Deliver(s, data, io) ==
    CASE connType = "serial" /\ HasAttr("serial_conn") /\ s.serial_conn # 0 ->
            WriteTo(s, s.serial_conn, data, io)
      [] connType = "tcp" /\ HasAttr("writer") /\ s.writer # 0 ->
            WriteTo(s, s.writer, data, io)
      [] connType = "bridge" ->
            IF mqtt_client
            THEN Emit(s, EvRelay("bridges/" \o BridgeId \o "/command", data))
            ELSE s
      [] OTHER -> s

\* send_command(command), command kept as pieces
SendCommand(s, command, io) ==
    LET s1 == IF NeedsConnect(s) THEN Connect(s, io) ELSE s
    IN IF s1.raised # "none" THEN s1 ELSE Deliver(s1, Join(ReplaceCR(command)), io)

----------------------------------------------------------------------------
(* BoseEX440V3Integration: device commands and dispatch                    *)

\* -60.5 dB and +12.0 dB, in halves of a dB
VolMinHalves == -121
VolMaxHalves == 24
SourceMin == 1
SourceMax == 16

\* BaseIntegration.publish_state(zone_id, parameter, value)
PublishState(s, zone_id, param, value) == Emit(s, EvPublish(zone_id, param, value))

\* mutant: the state published before the command is sent
PublishThenSend(s, cmd, zone_id, param, value, io) ==
    SendCommand(PublishState(s, zone_id, param, value), cmd, io)

\* await self.send_command(cmd); self.publish_state(...): a raise skips the publication
SendThenPublish(s, cmd, zone_id, param, value, io) ==
    LET sent == SendCommand(s, cmd, io)
    IN IF sent.raised # "none" THEN sent ELSE PublishState(sent, zone_id, param, value)

\* mutant: the level capped at +12.0 dB only
ClampVolumeNoFloor(level) == Min(VolMaxHalves, level)

\* max(-60.5, min(12.0, level_db))
ClampVolume(level) == Max(VolMinHalves, Min(VolMaxHalves, level))

\* max(1, min(16, source_num))
ClampSource(n) == Max(SourceMin, Min(SourceMax, n))

\* f'SA"{module_name}">{index}>{value}<CR>', kept as pieces
Encode(module_name, index, text) == <<"SA\"", module_name, "\">", index, ">", text, "<CR>">>

\* _cmd_set_volume(zone_id, module_name, level_db)
CmdSetVolume(s, zone_id, module_name, level, io) ==
    SendThenPublish(s, Encode(module_name, "1", FmtFloat(ClampVolume(level))),
                    zone_id, "volume", FloatV(ClampVolume(level)), io)

\* mutant: O sent to unmute and F to mute
CmdToggleMuteSwapped(s, zone_id, module_name, mute, io) ==
    SendThenPublish(s, Encode(module_name, "2", IF mute THEN "F" ELSE "O"),
                    zone_id, "mute", BoolV(mute), io)

\* _cmd_toggle_mute(zone_id, module_name, mute)
CmdToggleMute(s, zone_id, module_name, mute, io) ==
    SendThenPublish(s, Encode(module_name, "2", IF mute THEN "O" ELSE "F"),
                    zone_id, "mute", BoolV(mute), io)

\* _cmd_set_source(zone_id, module_name, source_num)
CmdSetSource(s, zone_id, module_name, n, io) ==
    SendThenPublish(s, Encode(module_name, "1", FmtInt(ClampSource(n))),
                    zone_id, "source", IntV(ClampSource(n)), io)

\* str.lower() of the command words in use
LowerWord(w) ==
    CASE w = "Volume" -> "volume"
      [] w = "Mute" -> "mute"
      [] w = "Source" -> "source"
      [] OTHER -> w

\* mutant: the volume names matched without regard to case
IsVolumeAnyCase(command) ==
    [i \in DOMAIN command |-> LowerWord(command[i])]
        \in { <<"volume">>, <<"set", "_", "volume">> }

\* the command names handle_link_command knows
IsVolume(command) == command = <<"volume">> \/ command = <<"set", "_", "volume">>
IsMute(command) == command = <<"mute">> \/ command = <<"toggle", "_", "mute">>
IsSource(command) == command = <<"source">> \/ command = <<"set", "_", "source">>

\* the if / elif chain of handle_link_command for a found zone
Dispatch(s, zone_id, zc, command, value, io) ==
    CASE IsVolume(command) ->
            IF ToFloat(value).ok
            THEN CmdSetVolume(s, zone_id, GetOr(zc.volume_module, "Main Volume"),
                              ToFloat(value).n, io)
            ELSE Raise(s, "ValueError")
      [] IsMute(command) ->
            CmdToggleMute(s, zone_id, GetOr(zc.mute_module, "Main Volume"), ToBool(value), io)
      [] IsSource(command) ->
            IF ToInt(value).ok
            THEN CmdSetSource(s, zone_id, GetOr(zc.source_module, "Selector 1"),
                              ToInt(value).n, io)
            ELSE Raise(s, "ValueError")
      [] OTHER -> s

\* mutant: the parts unpacked without the length check; unpacking one part raises
HandleLinkCommandUnchecked(s, link_id, value, io) ==
    LET parts == Split1(link_id)
    IN IF Len(parts) # 2 THEN Raise(s, "ValueError")
       ELSE LET zone_config == GetZoneConfig(parts[1])
            IN IF zone_config = NoneZone THEN s
               ELSE Dispatch(s, parts[1], zone_config, parts[2], value, io)

\* handle_link_command(link_id, value)
HandleLinkCommand(s, link_id, value, io) ==
    LET parts == Split1(link_id)
    IN IF Len(parts) # 2 THEN s
       ELSE LET zone_config == GetZoneConfig(parts[1])
            IN IF zone_config = NoneZone THEN s
               ELSE Dispatch(s, parts[1], zone_config, parts[2], value, io)

----------------------------------------------------------------------------
(* Inputs                                                                  *)

\* f"{zone}_{command}"
LinkId(zone, command) == zone \o <<"_">> \o command

\* the zones get_links lists: those of the configuration, or a default
\* "master" zone when the configuration has none
ListedZones == IF zones = <<>> THEN <<ZoneMaster>> ELSE zones

\* Link(id=f"{zone_id}_volume", command="set_volume"), and the same for mute and source
LinksOf(zone) ==
    << [id |-> LinkId(zone.id, <<"volume">>), command |-> <<"set", "_", "volume">>],
       [id |-> LinkId(zone.id, <<"mute">>), command |-> <<"toggle", "_", "mute">>],
       [id |-> LinkId(zone.id, <<"source">>), command |-> <<"set", "_", "source">>] >>

RECURSIVE LinksOfAll(_)
\* for zone in zones: links.append(...) three times
LinksOfAll(zs) == IF zs = <<>> THEN <<>> ELSE LinksOf(Head(zs)) \o LinksOfAll(Tail(zs))

\* get_links()
GetLinks == LinksOfAll(ListedZones)

\* link ids that name a zone of the largest configuration and a known command
GoodLinkIds ==
    { LinkId(<<"master">>, <<"volume">>), LinkId(<<"master">>, <<"set", "_", "volume">>),
      LinkId(<<"master">>, <<"mute">>), LinkId(<<"master">>, <<"toggle", "_", "mute">>),
      LinkId(<<"master">>, <<"source">>), LinkId(<<"master">>, <<"set", "_", "source">>),
      LinkId(<<"patio">>, <<"set", "_", "volume">>),
      LinkId(<<"living", "_", "room">>, <<"volume">>) }

\* link ids with an unknown zone, an unknown command, an empty part or no separator
OddLinkIds ==
    { LinkId(<<"nozone">>, <<"volume">>), LinkId(<<"master">>, <<"bogus">>),
      LinkId(<<"master">>, <<"Volume">>), LinkId(<<"master">>, <<>>),
      LinkId(<<>>, <<"volume">>), <<"masterzone">>, <<>> }

LinkIds == GoodLinkIds \cup OddLinkIds

Values ==
    { IntV(-10), IntV(0), IntV(5), IntV(99), IntV(100), FloatV(-200), FloatV(1), TextV }

\* raw commands a caller hands to send_command
RawCommands == { <<"GA\"Main Volume\">1", "<CR>">> }

----------------------------------------------------------------------------
(* The Bose instance as a state machine: one action per call               *)

\* tasks that call handle_link_command on one instance
MaxTasks == 2
Tasks == 1..MaxTasks

\* a call not made yet
NoCall == [link |-> <<>>, value |-> NoneV, rest |-> <<>>]

\* no task has been started
TasksIdle ==
    /\ t_pc = [t \in Tasks |-> "idle"]
    /\ t_call = [t \in Tasks |-> NoCall]
    /\ t_wait = <<>>
    /\ t_log = <<>>

NoOp ==
    [op |-> "init", link |-> <<>>, value |-> NoneV, cmd |-> <<>>, events |-> <<>>,
     raised |-> "none", pre |-> [serial_conn |-> 0, writer |-> 0, live |-> {}]]

Entry == St(serial_conn, writer, live, <<>>, "none")

\* the call returns (or raises): the instance and the record of the call
Returned(op, link, value, cmd, r) ==
    /\ serial_conn' = r.serial_conn
    /\ writer' = r.writer
    /\ live' = r.live
    /\ lastOp' = [op |-> op, link |-> link, value |-> value, cmd |-> cmd,
                  events |-> r.events, raised |-> r.raised,
                  pre |-> [serial_conn |-> serial_conn, writer |-> writer, live |-> live]]
    /\ UNCHANGED <<connType, zones, mqtt_client>>
    /\ UNCHANGED <<itachVars, discVars, allVars>>

\* a call made outside a serialized sequence
Commit(op, link, value, cmd, r) ==
    /\ Returned(op, link, value, cmd, r)
    /\ UNCHANGED <<w_log, w_calls, taskVars>>

BoseInit ==
    /\ connType \in ConnTypes
    /\ zones \in ZoneConfigs
    /\ mqtt_client \in BOOLEAN
    /\ serial_conn = 0
    /\ writer = 0
    /\ live = {}
    /\ lastOp = NoOp
    /\ w_log = <<>>
    /\ w_calls = <<>>
    /\ TasksIdle

BoseConnect ==
    \E c \in BOOLEAN :
        Commit("connect", <<>>, NoneV, <<>>,
               Connect(Entry, [conn |-> c, write |-> TRUE, close |-> TRUE]))

BoseDisconnect ==
    \E c \in BOOLEAN :
        Commit("disconnect", <<>>, NoneV, <<>>,
               Disconnect(Entry, [conn |-> TRUE, write |-> TRUE, close |-> c]))

\* the answers to a connect attempt, when the call makes one
ConnOutcomes == IF NeedsConnect(Entry) THEN BOOLEAN ELSE {TRUE}

BoseSendCommand ==
    \E cmd \in RawCommands, c \in ConnOutcomes, w \in BOOLEAN :
        Commit("send_command", <<>>, NoneV, cmd,
               SendCommand(Entry, cmd, [conn |-> c, write |-> w, close |-> TRUE]))

BoseHandleLinkCommand ==
    \E link_id \in LinkIds, value \in Values, c \in ConnOutcomes, w \in BOOLEAN :
        Commit("handle_link_command", link_id, value, <<>>,
               HandleLinkCommand(Entry, link_id, value,
                                 [conn |-> c, write |-> w, close |-> TRUE]))

----------------------------------------------------------------------------
(* handle_link_command called again and again, each call awaited           *)

\* calls in one serialized sequence
MaxCalls == 2

\* the link ids and values of the sequence
SerialLinkIds ==
    { LinkId(<<"master">>, <<"set", "_", "volume">>),
      LinkId(<<"master">>, <<"toggle", "_", "mute">>),
      LinkId(<<"master">>, <<"bogus">>) }
SerialValues == { IntV(-10), IntV(0), TextV }

\* an instance with zones and a transport that connect() opens
BoseSerial ==
    /\ connType \in {"serial", "tcp"}
    /\ zones = <<ZoneMaster, ZoneLiving, ZonePatio>>
    /\ mqtt_client = FALSE
    /\ serial_conn = 0
    /\ writer = 0
    /\ live = {}
    /\ lastOp = NoOp
    /\ w_log = <<>>
    /\ w_calls = <<>>
    /\ TasksIdle

\* await handle_link_command(link_id, value): the next call starts when this
\* one is over
SerialHandleLinkCommand ==
    /\ Len(w_calls) < MaxCalls
    /\ \E link_id \in SerialLinkIds, value \in SerialValues, w \in BOOLEAN :
          LET r == HandleLinkCommand(Entry, link_id, value,
                                     [conn |-> TRUE, write |-> w, close |-> TRUE])
          IN /\ Returned("handle_link_command", link_id, value, <<>>, r)
             /\ w_log' = w_log \o r.events
             /\ w_calls' = Append(w_calls,
                    [link |-> link_id, value |-> value, raised |-> r.raised,
                     held |-> IF connType = "serial" THEN serial_conn # 0 ELSE writer # 0])
             /\ UNCHANGED taskVars

----------------------------------------------------------------------------
(* handle_link_command run as concurrent tasks of one event loop           *)

\* the link ids and values of the tasks: one zone parameter
TaskLinkIds == { LinkId(<<"master">>, <<"set", "_", "volume">>) }
TaskValues == { IntV(-10), IntV(0) }

\* an instance with zones and a stream that connect() opens
BoseTcp ==
    /\ connType = "tcp"
    /\ zones = <<ZoneMaster, ZoneLiving, ZonePatio>>
    /\ mqtt_client = FALSE
    /\ serial_conn = 0
    /\ writer = 0
    /\ live = {}
    /\ lastOp = NoOp
    /\ w_log = <<>>
    /\ w_calls = <<>>
    /\ TasksIdle

\* index of the first write among the events of a call, 0 when it wrote nothing
FlushAt(events) ==
    IF \E i \in DOMAIN events : events[i].e = "write"
    THEN CHOOSE i \in DOMAIN events :
             events[i].e = "write" /\ \A j \in 1..(i - 1) : events[j].e # "write"
    ELSE 0

\* the call reaches await self.writer.drain(): a tcp instance that has just
\* called self.writer.write
ReachesDrain(events) == connType = "tcp" /\ FlushAt(events) # 0

\* the events of a call as entries of the log of task t
Tagged(t, events) == [i \in DOMAIN events |-> [task |-> t, ev |-> events[i]]]

\* task t runs handle_link_command up to the end of the call, or up to
\* await self.writer.drain() when the stream makes the flush wait: the task
\* is suspended there and the event loop runs other tasks
TaskCall(t) ==
    /\ t_pc[t] = "idle"
    /\ \E link_id \in TaskLinkIds, value \in TaskValues, w \in BOOLEAN, suspend \in BOOLEAN :
          LET r == HandleLinkCommand(Entry, link_id, value,
                                     [conn |-> TRUE, write |-> w, close |-> TRUE])
              at == FlushAt(r.events)
          IN /\ serial_conn' = r.serial_conn
             /\ writer' = r.writer
             /\ live' = r.live
             /\ IF ReachesDrain(r.events) /\ suspend
                THEN /\ t_log' = t_log \o Tagged(t, SubSeq(r.events, 1, at))
                     /\ t_pc' = [t_pc EXCEPT ![t] = "draining"]
                     /\ t_wait' = Append(t_wait, t)
                     /\ t_call' = [t_call EXCEPT ![t] =
                            [link |-> link_id, value |-> value,
                             rest |-> SubSeq(r.events, at + 1, Len(r.events))]]
                ELSE /\ ~ReachesDrain(r.events) => ~suspend
                     /\ t_log' = t_log \o Tagged(t, r.events)
                     /\ t_pc' = [t_pc EXCEPT ![t] = IF r.raised = "none" THEN "done" ELSE "raised"]
                     /\ t_wait' = t_wait
                     /\ t_call' = [t_call EXCEPT ![t] =
                            [link |-> link_id, value |-> value, rest |-> <<>>]]
    /\ UNCHANGED <<connType, zones, mqtt_client, lastOp, w_log, w_calls>>
    /\ UNCHANGED <<itachVars, discVars, allVars>>

\* the flush is over and the event loop resumes the task that waited
\* longest: drain() returns and the rest of the call runs, or drain() raises
\* (connection lost) and the call ends there
TaskResume(t) ==
    /\ t_pc[t] = "draining"
    /\ t_wait # <<>>
    /\ t = Head(t_wait)
    /\ t_wait' = Tail(t_wait)
    /\ \E ok \in BOOLEAN :
          IF ok
          THEN /\ t_log' = t_log \o Tagged(t, t_call[t].rest)
               /\ t_pc' = [t_pc EXCEPT ![t] = "done"]
          ELSE /\ t_log' = t_log
               /\ t_pc' = [t_pc EXCEPT ![t] = "raised"]
    /\ t_call' = [t_call EXCEPT ![t].rest = <<>>]
    /\ UNCHANGED <<connType, zones, mqtt_client, serial_conn, writer, live, lastOp, w_log, w_calls>>
    /\ UNCHANGED <<itachVars, discVars, allVars>>

----------------------------------------------------------------------------
(* GlobalCacheItachIntegration: connect, disconnect, send_serial, send_ir  *)

\* the iTach instance while a call runs on it
ItSt(sk, cn, lv, ev, r) ==
    [sock |-> sk, connected |-> cn, live |-> lv, events |-> ev, raised |-> r]

ItFreeHandles(s) == (1..MaxHandles) \ (s.live \cup {s.sock})
ItNewHandle(s) == CHOOSE h \in ItFreeHandles(s) : \A g \in ItFreeHandles(s) : h <= g

\* connect(): a new socket, connect((host, port)), connected = True, then the
\* getversion exchange; an error of any of them sets connected = False and is
\* raised again
ItConnect(s, io) ==
    IF ItFreeHandles(s) = {}
    THEN Raise([s EXCEPT !.connected = FALSE], "ConnectionError")
    ELSE LET h == ItNewHandle(s)
             made == Emit([s EXCEPT !.sock = h, !.live = @ \cup {h}], EvOpen(h))
         IN IF ~io.conn THEN Raise([made EXCEPT !.connected = FALSE], "ConnectionError")
            ELSE Emit([made EXCEPT !.connected = TRUE], EvWrite(h, "getversion\r"))

\* disconnect(): if self.socket: close(); connected = False
ItDisconnect(s, io) ==
    IF s.sock = 0 THEN s
    ELSE IF ~io.close THEN Raise(s, "CloseError")
    ELSE Emit([s EXCEPT !.live = @ \ {s.sock}, !.connected = FALSE], EvClose(s.sock))

\* socket.send(data); socket.recv(1024) inside the try of a send
ItExchange(s, data, io, demote) ==
    IF io.write /\ s.sock \in s.live
    THEN Emit(s, EvWrite(s.sock, data))
    ELSE Raise([s EXCEPT !.connected = IF demote THEN FALSE ELSE @], "TransportError")

\* the implicit connect() of both sends
ItEnsureConnected(s, io) == IF ~s.connected THEN ItConnect(s, io) ELSE s

\* send_serial(data): the except block sets connected = False
ItSendSerial(s, data, io) ==
    LET s1 == ItEnsureConnected(s, io)
    IN IF s1.raised # "none" THEN s1 ELSE ItExchange(s1, data, io, TRUE)

\* send_ir(data): the except block only raises again
ItSendIr(s, data, io) ==
    LET s1 == ItEnsureConnected(s, io)
    IN IF s1.raised # "none" THEN s1 ELSE ItExchange(s1, "sendir," \o data \o "\r", io, FALSE)

\* payloads the callers send through the bridge
ItData == { "1:1,38000,1,1,342,171" }

ItNoOp ==
    [op |-> "init", data |-> "", events |-> <<>>, raised |-> "none",
     pre |-> [sock |-> 0, connected |-> FALSE, live |-> {}]]

ItEntry == ItSt(sock, connected, itLive, <<>>, "none")

ItCommit(op, data, r) ==
    /\ sock' = r.sock
    /\ connected' = r.connected
    /\ itLive' = r.live
    /\ itOp' = [op |-> op, data |-> data, events |-> r.events, raised |-> r.raised,
                pre |-> [sock |-> sock, connected |-> connected, live |-> itLive]]
    /\ UNCHANGED <<boseVars, discVars, allVars>>

\* __init__: socket = None, connected = False
ItachIdle ==
    /\ sock = 0
    /\ connected = FALSE
    /\ itLive = {}
    /\ itOp = ItNoOp

ItachConnect ==
    \E c \in BOOLEAN :
        ItCommit("connect", "",
                 ItConnect(ItEntry, [conn |-> c, write |-> TRUE, close |-> TRUE]))

ItachDisconnect ==
    \E c \in BOOLEAN :
        ItCommit("disconnect", "",
                 ItDisconnect(ItEntry, [conn |-> TRUE, write |-> TRUE, close |-> c]))

ItachSendSerial ==
    \E data \in ItData, c \in BOOLEAN, w \in BOOLEAN :
        ItCommit("send_serial", data,
                 ItSendSerial(ItEntry, data, [conn |-> c, write |-> w, close |-> TRUE]))

ItachSendIr ==
    \E data \in ItData, c \in BOOLEAN, w \in BOOLEAN :
        ItCommit("send_ir", data,
                 ItSendIr(ItEntry, data, [conn |-> c, write |-> w, close |-> TRUE]))

----------------------------------------------------------------------------
(* Discovery sessions: EmpireBridgeDiscovery.discover and                  *)
(* GlobalCacheItachIntegration.discover_devices                            *)

\* sock.settimeout(1): the poll interval in seconds
PollSeconds == 1
\* clock resolution of the model
TicksPerSecond == 2
\* the largest timeout argument tried, in ticks
MaxTimeout == 5
\* datagrams and socket errors the sessions of one call are handed
MaxDatagrams == 2

Poll == PollSeconds * TicksPerSecond

\* mutant: the loop entered once more when the elapsed time equals the timeout
LoopConditionInclusive(elapsed, timeout) == elapsed <= timeout

\* while (loop.time() - start_time) < timeout
LoopCondition(elapsed, timeout) == elapsed < timeout

\* a JSON value that json.loads returns: an object with its keys, or another value
JsonObject(type, name, port) == [kind |-> "object", type |-> type, name |-> name, port |-> port]
JsonArray == [kind |-> "array", type |-> Absent, name |-> Absent, port |-> Absent]
\* the text is no JSON document
NotJson == [kind |-> "invalid", type |-> Absent, name |-> Absent, port |-> Absent]

\* a datagram: whether its bytes are UTF-8, its text as words and the
\* delimiters "-" and "=", and what json.loads makes of the text
Datagram(utf8, text, json) == [utf8 |-> utf8, text |-> text, json |-> json]

DgEmpire == Datagram(TRUE, <<"{json}">>, JsonObject("empire_bridge", "X", "5001"))
DgNoType == Datagram(TRUE, <<"{json}">>, JsonObject(Absent, "Y", Absent))
DgArray == Datagram(TRUE, <<"[json]">>, JsonArray)
DgPartial == Datagram(TRUE, <<"{\"type\":\"empire_bri">>, NotJson)
DgBytes == Datagram(FALSE, <<>>, NotJson)
DgAmxb ==
    Datagram(TRUE, <<"AMXB<", "-", "UUID", "=", "abc", "-", "Model", "=", "EX1", "-">>, NotJson)
DgAmxbBare == Datagram(TRUE, <<"AMXB<", "-", "UUID", "=", "abc">>, NotJson)
\* an object of another bridge family, and an empire_bridge object with no name and no port
DgOtherType == Datagram(TRUE, <<"{json}">>, JsonObject("other_bridge", "Z", "7000"))
DgEmpireBare == Datagram(TRUE, <<"{json}">>, JsonObject("empire_bridge", Absent, Absent))
\* a beacon answer with the model first and no uuid, and one that claims a port
DgAmxbModel ==
    Datagram(TRUE, <<"AMXB<", "-", "Model", "=", "iTachIP2IR", "-", "Port", "=", "80">>, NotJson)

Datagrams ==
    { DgEmpire, DgNoType, DgArray, DgPartial, DgBytes, DgAmxb, DgAmxbBare,
      DgOtherType, DgEmpireBare, DgAmxbModel }

\* what recvfrom returned: the datagram, addr[0] of its sender, and its
\* number among the arrivals of the session
Arrival(dg, ip, n) == [dg |-> dg, ip |-> ip, n |-> n]
\* before the first datagram arrives: nothing
NoArrival == Arrival(Datagram(FALSE, <<>>, NotJson), "", 0)

\* data and addr[0] of recvfrom: every datagram from one sender, the two
\* answers from a second sender too
Arrivals ==
    { <<dg, "10.0.0.5">> : dg \in Datagrams } \cup { <<DgEmpire, "10.0.0.9">>, <<DgAmxb, "10.0.0.9">> }

Device(ip, port, name, model, uid) ==
    [ip |-> ip, port |-> port, name |-> name, model |-> model, uid |-> uid]

RECURSIVE SplitOn(_, _)
\* text.split(sep), on words and delimiters
SplitOn(s, sep) ==
    IF \A i \in DOMAIN s : s[i] # sep THEN <<s>>
    ELSE LET i == CHOOSE k \in DOMAIN s : s[k] = sep /\ \A j \in 1..(k - 1) : s[j] # sep
         IN <<SubSeq(s, 1, i - 1)>> \o SplitOn(SubSeq(s, i + 1, Len(s)), sep)

\* "AMXB" in response
HasAmxb(text) == \E i \in DOMAIN text : text[i] \in {"AMXB", "AMXB<"}

\* key + "=" in part
HasKey(part, key) == \E i \in 1..(Len(part) - 1) : part[i] = key /\ part[i + 1] = "="

\* mutant: the text before the "=" taken for the value
ValueOfKey(part) == Join(SplitOn(part, "=")[1])

\* part.split('=')[1]
ValueOf(part) == Join(SplitOn(part, "=")[2])

RECURSIVE ScanParts(_, _, _)
\* the for loop over response.split('-') that fills uuid and model
ScanParts(parts, ip, dev) ==
    IF parts = <<>> THEN dev
    ELSE ScanParts(Tail(parts), ip,
            IF HasKey(Head(parts), "UUID") THEN [dev EXCEPT !.uid = ValueOf(Head(parts))]
            ELSE IF HasKey(Head(parts), "Model")
            THEN [dev EXCEPT !.model = ValueOf(Head(parts)),
                             !.name = "iTach " \o ValueOf(Head(parts)) \o " at " \o ip]
            ELSE dev)

\* the body of the iTach receive loop for one datagram: [raised, devices]
ItachHandle(dg, ip, devices) ==
    IF ~dg.utf8 THEN [raised |-> "UnicodeDecodeError", devices |-> devices]
    ELSE IF HasAmxb(dg.text)
    THEN [raised |-> "none",
          devices |-> Append(devices,
              ScanParts(SplitOn(dg.text, "-"), ip,
                        Device(ip, "4999", "iTach at " \o ip, "Unknown", "Unknown")))]
    ELSE [raised |-> "none", devices |-> devices]

\* mutant: an answer from an address already listed is dropped
EmpireHandleDedup(dg, ip, devices) ==
    IF ~dg.utf8 \/ dg.json.kind # "object" THEN [raised |-> "none", devices |-> devices]
    ELSE IF dg.json.type = "empire_bridge" /\ \A i \in DOMAIN devices : devices[i].ip # ip
    THEN [raised |-> "none",
          devices |-> Append(devices,
              Device(ip, GetOr(dg.json.port, "5000"), GetOr(dg.json.name, "Empire Bridge"),
                     "Unknown", "Unknown"))]
    ELSE [raised |-> "none", devices |-> devices]

\* the body of the Empire receive loop for one datagram: every exception of
\* decode, json.loads and response.get is caught and the loop goes on
EmpireHandle(dg, ip, devices) ==
    IF ~dg.utf8 \/ dg.json.kind # "object" THEN [raised |-> "none", devices |-> devices]
    ELSE IF dg.json.type = "empire_bridge"
    THEN [raised |-> "none",
          devices |-> Append(devices,
              Device(ip, GetOr(dg.json.port, "5000"), GetOr(dg.json.name, "Empire Bridge"),
                     "Unknown", "Unknown"))]
    ELSE [raised |-> "none", devices |-> devices]

Handle(family, dg, ip, devices) ==
    IF family = "empire" THEN EmpireHandle(dg, ip, devices) ELSE ItachHandle(dg, ip, devices)

\* no session is running
DiscIdle ==
    /\ d_family = "empire"
    /\ d_pc = "idle"
    /\ d_timeout = 0
    /\ d_elapsed = 0
    /\ d_block = 0
    /\ d_sock = "none"
    /\ d_devices = <<>>
    /\ d_received = 0
    /\ d_error = "none"
    /\ d_last = NoArrival

\* results = {"empire": [], "itach": [], "other": []}
EmptyResults == [empire |-> <<>>, itach |-> <<>>, other |-> <<>>]

\* no call of discover_all_bridges is running
AllIdle ==
    /\ a_pc = "idle"
    /\ a_import = TRUE
    /\ a_results = EmptyResults
    /\ a_spent = 0

\* the entry of a session with its timeout argument: devices = [] and
\* sock = socket.socket(AF_INET, SOCK_DGRAM)
SessionStart(f, t) ==
    /\ d_family' = f
    /\ d_timeout' = t
    /\ d_pc' = "setup"
    /\ d_sock' = "open"
    /\ d_devices' = <<>>
    /\ d_elapsed' = 0
    /\ d_block' = 0
    /\ d_error' = "none"
    /\ d_last' = NoArrival

\* a session called on its own
DiscStart ==
    /\ d_pc \in {"idle", "returned", "raised"}
    /\ \E f \in {"empire", "itach"}, t \in 0..MaxTimeout : SessionStart(f, t)
    /\ d_received' = 0
    /\ UNCHANGED <<boseVars, itachVars, allVars>>

\* the socket calls made before the try block
SetupCalls(family) ==
    IF family = "empire" THEN {"setsockopt", "bind", "settimeout"}
    ELSE {"setsockopt", "settimeout"}

\* setsockopt, (bind,) settimeout: outside the try, an error leaves the function at once
DiscSetup ==
    /\ d_pc = "setup"
    /\ \E failing \in SetupCalls(d_family) \cup {"none"} :
          IF failing = "none"
          THEN d_pc' = "try" /\ d_error' = "none"
          ELSE d_pc' = "raised" /\ d_error' = failing
    /\ UNCHANGED <<d_family, d_timeout, d_elapsed, d_block, d_sock, d_devices, d_received,
                   d_last>>
    /\ UNCHANGED <<boseVars, itachVars, allVars>>

\* the sendto of the beacon, then start_time = loop.time(); Empire swallows a
\* failing sendto, iTach leaves through the finally block
DiscSend ==
    /\ d_pc = "try"
    /\ \E ok \in BOOLEAN :
          IF ok \/ d_family = "empire"
          THEN d_pc' = "loop" /\ d_error' = "none" /\ d_sock' = d_sock
          ELSE d_pc' = "raised" /\ d_error' = "sendto" /\ d_sock' = "closed"
    /\ d_elapsed' = 0
    /\ UNCHANGED <<d_family, d_timeout, d_block, d_devices, d_received, d_last>>
    /\ UNCHANGED <<boseVars, itachVars, allVars>>

\* recvfrom raises socket.timeout after the poll interval: continue
DiscRecvTimeout ==
    /\ d_pc = "loop"
    /\ LoopCondition(d_elapsed, d_timeout)
    /\ d_elapsed' = d_elapsed + Poll
    /\ d_block' = Poll
    /\ UNCHANGED <<d_family, d_pc, d_timeout, d_sock, d_devices, d_received, d_error, d_last>>
    /\ UNCHANGED <<boseVars, itachVars, allVars>>

\* recvfrom returns a datagram before the poll interval is over
DiscRecvDatagram ==
    /\ d_pc = "loop"
    /\ LoopCondition(d_elapsed, d_timeout)
    /\ d_received < MaxDatagrams
    /\ \E a \in Arrivals, wait \in 0..(Poll - 1) :
          LET dg == a[1]
              ip == a[2]
              r == Handle(d_family, dg, ip, d_devices)
          IN /\ d_elapsed' = d_elapsed + wait
             /\ d_block' = wait
             /\ d_devices' = r.devices
             /\ d_error' = r.raised
             /\ d_pc' = IF r.raised = "none" THEN "loop" ELSE "raised"
             /\ d_sock' = IF r.raised = "none" THEN d_sock ELSE "closed"
             /\ d_last' = Arrival(dg, ip, d_last.n + 1)
    /\ d_received' = d_received + 1
    /\ UNCHANGED <<d_family, d_timeout>>
    /\ UNCHANGED <<boseVars, itachVars, allVars>>

\* recvfrom raises another OSError: Empire prints it and goes on, iTach
\* leaves through the finally block
DiscRecvError ==
    /\ d_pc = "loop"
    /\ LoopCondition(d_elapsed, d_timeout)
    /\ d_received < MaxDatagrams
    /\ \E wait \in 0..(Poll - 1) :
          /\ d_elapsed' = d_elapsed + wait
          /\ d_block' = wait
    /\ d_received' = d_received + 1
    /\ IF d_family = "empire"
       THEN UNCHANGED <<d_pc, d_sock, d_error>>
       ELSE d_pc' = "raised" /\ d_sock' = "closed" /\ d_error' = "recvfrom"
    /\ UNCHANGED <<d_family, d_timeout, d_devices, d_last>>
    /\ UNCHANGED <<boseVars, itachVars, allVars>>

\* the loop condition fails: finally sock.close(), return devices
DiscReturn ==
    /\ d_pc = "loop"
    /\ ~LoopCondition(d_elapsed, d_timeout)
    /\ d_pc' = "returned"
    /\ d_sock' = "closed"
    /\ UNCHANGED <<d_family, d_timeout, d_elapsed, d_block, d_devices, d_received, d_error,
                   d_last>>
    /\ UNCHANGED <<boseVars, itachVars, allVars>>

\* a step of a running session
DiscStep ==
    \/ DiscSetup
    \/ DiscSend
    \/ DiscRecvTimeout
    \/ DiscRecvDatagram
    \/ DiscRecvError
    \/ DiscReturn

----------------------------------------------------------------------------
(* discover_all_bridges: the Empire session, then the iTach session        *)

\* the timeout arguments tried: none, and the largest
AllTimeouts == {0, MaxTimeout}

\* results["empire"] = await EmpireBridgeDiscovery.discover(timeout)
AfterEmpire(results, devices) == [results EXCEPT !.empire = devices]

\* results["itach"] = await GlobalCacheItachIntegration.discover_devices(timeout)
AfterItach(results, devices) == [results EXCEPT !.itach = devices]

\* mutant: the failure of the iTach part leaves the call
ItachExceptReraise(results) == [pc |-> "raised", results |-> results]

\* except: pass, around the import and the iTach session
ItachExcept(results) == [pc |-> "returned", results |-> results]

\* the await of the Empire session is over: the session has returned
EmpireAwaited == d_family = "empire" /\ d_pc = "returned"

\* the call: the results dictionary, then the Empire session is entered
AllStart ==
    /\ a_pc \in {"idle", "returned", "raised"}
    /\ \E t \in AllTimeouts : SessionStart("empire", t)
    /\ d_received' = 0
    /\ a_import' \in BOOLEAN
    /\ a_pc' = "empire"
    /\ a_results' = EmptyResults
    /\ a_spent' = 0
    /\ UNCHANGED <<boseVars, itachVars>>

\* the Empire session returned its list: the import of the iTach integration
\* is tried and, when it succeeds, the iTach session is entered with the same timeout
AllEmpireDone ==
    /\ a_pc = "empire"
    /\ EmpireAwaited
    /\ a_spent' = d_elapsed
    /\ IF a_import
       THEN /\ SessionStart("itach", d_timeout)
            /\ UNCHANGED d_received
            /\ a_pc' = "itach"
            /\ a_results' = AfterEmpire(a_results, d_devices)
       ELSE LET r == ItachExcept(AfterEmpire(a_results, d_devices))
            IN /\ a_pc' = r.pc
               /\ a_results' = r.results
               /\ UNCHANGED discVars
    /\ UNCHANGED <<boseVars, itachVars, a_import>>

\* the Empire session raised: nothing catches it
AllEmpireRaised ==
    /\ a_pc = "empire"
    /\ d_pc = "raised"
    /\ a_pc' = "raised"
    /\ UNCHANGED <<boseVars, itachVars, discVars, a_import, a_results, a_spent>>

\* the iTach session returned its list
AllItachDone ==
    /\ a_pc = "itach"
    /\ d_pc = "returned"
    /\ a_pc' = "returned"
    /\ a_results' = AfterItach(a_results, d_devices)
    /\ UNCHANGED <<boseVars, itachVars, discVars, a_import, a_spent>>

\* the iTach session raised: except: pass
AllItachRaised ==
    /\ a_pc = "itach"
    /\ d_pc = "raised"
    /\ LET r == ItachExcept(a_results)
       IN /\ a_pc' = r.pc
          /\ a_results' = r.results
    /\ UNCHANGED <<boseVars, itachVars, discVars, a_import, a_spent>>

----------------------------------------------------------------------------
(* Specifications                                                          *)

Init == BoseInit /\ ItachIdle /\ DiscIdle /\ AllIdle

Next ==
    \/ BoseConnect
    \/ BoseDisconnect
    \/ BoseSendCommand
    \/ BoseHandleLinkCommand

Spec == Init /\ [][Next]_vars

\* the Bose instance of the discovery specifications: constructed, never used
BoseParked ==
    /\ connType = "serial"
    /\ zones = <<>>
    /\ mqtt_client = FALSE
    /\ serial_conn = 0
    /\ writer = 0
    /\ live = {}
    /\ lastOp = NoOp
    /\ w_log = <<>>
    /\ w_calls = <<>>
    /\ TasksIdle

DiscInit == BoseParked /\ ItachIdle /\ DiscIdle /\ AllIdle

DiscNext ==
    \/ DiscStart
    \/ DiscStep

ItachInit == BoseParked /\ ItachIdle /\ DiscIdle /\ AllIdle

ItachNext ==
    \/ ItachConnect
    \/ ItachDisconnect
    \/ ItachSendSerial
    \/ ItachSendIr

SpecItach == ItachInit /\ [][ItachNext]_vars

\* a running session keeps running: every socket call of it returns or raises
SpecDisc == DiscInit /\ [][DiscNext]_vars /\ WF_vars(DiscStep)

SerialNext ==
    \/ BoseConnect
    \/ SerialHandleLinkCommand

\* one instance, connected at some time, and a serialized sequence of calls
SerialInit == BoseSerial /\ ItachIdle /\ DiscIdle /\ AllIdle

SpecSerial == SerialInit /\ [][SerialNext]_vars

TaskCalls == \E t \in Tasks : TaskCall(t)
TaskResumes == \E t \in Tasks : TaskResume(t)

TasksNext ==
    \/ BoseConnect
    \/ TaskCalls
    \/ TaskResumes

TasksInit == BoseTcp /\ ItachIdle /\ DiscIdle /\ AllIdle

\* one tcp instance, connected at some time, and tasks that are not serialized
SpecTasks == TasksInit /\ [][TasksNext]_vars

AllNext ==
    \/ AllStart
    \/ DiscStep
    \/ AllEmpireDone
    \/ AllEmpireRaised
    \/ AllItachDone
    \/ AllItachRaised

\* calls of discover_all_bridges, one after the other
SpecAll == DiscInit /\ [][AllNext]_vars

----------------------------------------------------------------------------
(* Helpers of the properties                                               *)

IsWrite(e) == e.e = "write"
IsPublish(e) == e.e = "publish"
IsOpen(e) == e.e = "open"
Writes(ev) == SelectSeq(ev, IsWrite)
Publications(ev) == SelectSeq(ev, IsPublish)
Opens(ev) == SelectSeq(ev, IsOpen)

\* the call started with no transport handle held
StartedDisconnected == lastOp.pre.serial_conn = 0 /\ lastOp.pre.writer = 0
\* the instance holds no transport handle
HoldsNothing == serial_conn = 0 /\ writer = 0
\* the call left the handles and the open transports as they were
TransportUntouched ==
    /\ serial_conn = lastOp.pre.serial_conn
    /\ writer = lastOp.pre.writer
    /\ live = lastOp.pre.live

ConfiguredIds == { zones[i].id : i \in DOMAIN zones }
KnownCommands ==
    { <<"volume">>, <<"set", "_", "volume">>, <<"mute">>, <<"toggle", "_", "mute">>,
      <<"source">>, <<"set", "_", "source">> }

\* l has a separator, a non-empty zone part before the first one and a
\* non-empty command part after it
WellShaped(l) ==
    \E i \in DOMAIN l :
        /\ l[i] = "_"
        /\ \A j \in 1..(i - 1) : l[j] # "_"
        /\ 1 < i
        /\ i < Len(l)
ZonePart(l) == SubSeq(l, 1, (CHOOSE i \in DOMAIN l : l[i] = "_" /\ \A j \in 1..(i - 1) : l[j] # "_") - 1)
CommandPart(l) == SubSeq(l, Len(ZonePart(l)) + 2, Len(l))

----------------------------------------------------------------------------
(* C1..C7: transport manager and dispatcher of the Bose instance           *)

\* C1: on a serial or tcp instance, a send_command invoked while no transport
\* handle is held first opens a transport (implicit connect) and only then
\* writes the command to that transport; when the connect fails nothing is written.
C1_LazyConnectThenWrite ==
    (lastOp.op = "send_command" /\ connType \in {"serial", "tcp"} /\ StartedDisconnected)
        => \/ /\ lastOp.raised = "ConnectionError"
              /\ Writes(lastOp.events) = <<>>
           \/ /\ Len(lastOp.events) >= 2
              /\ lastOp.events[1].e = "open"
              /\ lastOp.events[2].e = "write"
              /\ lastOp.events[2].h = lastOp.events[1].h
           \/ /\ lastOp.raised = "TransportError"
              /\ Len(lastOp.events) = 1
              /\ lastOp.events[1].e = "open"

\* C2: when a write fails on a transport believed connected, the instance is
\* Disconnected afterwards, the error reaches the caller and the write is not retried.
C2_WriteFailureDemotes ==
    (lastOp.op \in {"send_command", "handle_link_command"} /\ lastOp.raised = "TransportError")
        => /\ HoldsNothing
           /\ Writes(lastOp.events) = <<>>

\* C3: handle_link_command("<z>_set_volume", v) for a configured zone z and an
\* in-range level v, with or without a connect() beforehand, writes exactly once
\* SA"M">1>v followed by one carriage return, and then publishes (z, volume, v)
\* exactly once; master, "Main Volume", -10 gives SA"Main Volume">1>-10.0\r.
C3_SetVolumeWritesOncePublishesOnce ==
    \A i \in DOMAIN zones :
        ( /\ lastOp.op = "handle_link_command"
          /\ connType \in {"serial", "tcp"}
          /\ lastOp.link = LinkId(zones[i].id, <<"set", "_", "volume">>)
          /\ lastOp.value \in {IntV(-10), IntV(0), FloatV(1)}
          /\ lastOp.raised = "none" )
        => /\ Len(lastOp.events) = 2
           /\ lastOp.events[1].e = "write"
           /\ lastOp.events[1].data =
                  "SA\"" \o GetOr(zones[i].volume_module, "Main Volume") \o "\">1>"
                      \o FmtFloat(ToFloat(lastOp.value).n) \o "\r"
           /\ (zones[i].id = <<"master">> /\ lastOp.value = IntV(-10))
                  => lastOp.events[1].data = "SA\"Main Volume\">1>-10.0\r"
           /\ lastOp.events[2] =
                  EvPublish(zones[i].id, "volume", FloatV(ToFloat(lastOp.value).n))

\* C3 on an instance that holds a transport when the call starts
C3_HoldsWhenConnected == StartedDisconnected \/ C3_SetVolumeWritesOncePublishesOnce

\* C4: a link id that does not split on its first "_" into two non-empty parts
\* makes handle_link_command open nothing, send nothing, publish nothing and
\* raise nothing, for any value and any transport state (the configured zone
\* ids are non-empty: an empty zone part is turned away by the zone lookup).
C4_MalformedLinkIdIsNoOp ==
    (lastOp.op = "handle_link_command" /\ ~WellShaped(lastOp.link))
        => /\ lastOp.events = <<>>
           /\ lastOp.raised = "none"
           /\ TransportUntouched

\* C4 witness: a connected instance was handed "_volume" with a non-numeric value
C4_Witness ==
    /\ lastOp.op = "handle_link_command"
    /\ lastOp.link = <<"_", "volume">>
    /\ lastOp.value = TextV
    /\ lastOp.pre.serial_conn # 0
    /\ zones # <<>>

\* C5: a well-shaped link id whose zone part names no configured zone, or whose
\* command part is not exactly one of the six command names, makes
\* handle_link_command do no transport I/O, publish nothing, leave the
\* transport as it was and raise nothing.
C5_UnknownZoneOrCommandIsNoOp ==
    ( /\ lastOp.op = "handle_link_command"
      /\ WellShaped(lastOp.link)
      /\ \/ ZonePart(lastOp.link) \notin ConfiguredIds
         \/ CommandPart(lastOp.link) \notin KnownCommands )
        => /\ lastOp.events = <<>>
           /\ lastOp.raised = "none"
           /\ TransportUntouched

\* C5 witness: a connected instance with zone master was handed "master_Volume"
C5_Witness ==
    /\ lastOp.op = "handle_link_command"
    /\ lastOp.link = <<"master", "_", "Volume">>
    /\ <<"master">> \in ConfiguredIds
    /\ lastOp.value = IntV(-10)
    /\ lastOp.pre.writer # 0

\* C6: disconnect() in any state releases the held port or stream, ends with no
\* handle held and never raises, even when closing fails.
C6_DisconnectAlwaysReleases ==
    lastOp.op = "disconnect"
        => /\ lastOp.raised = "none"
           /\ HoldsNothing
           /\ lastOp.pre.serial_conn \notin live
           /\ lastOp.pre.writer \notin live

\* C7: connect() on a connected instance opens nothing and keeps the held
\* handle, so at most one opened and not yet closed transport exists.
C7_AtMostOneLiveTransport ==
    /\ Cardinality(live) <= 1
    /\ (lastOp.op = "connect" /\ ~StartedDisconnected)
          => (Opens(lastOp.events) = <<>> /\ TransportUntouched)

----------------------------------------------------------------------------
(* C8..C10: discovery sessions                                             *)

SessionOver == d_pc \in {"returned", "raised"}
SessionRunning == d_pc \in {"setup", "try", "loop"}

\* C8: a discovery session of either family terminates whatever arrives: no
\* recvfrom blocks longer than the poll interval, the loop is not entered again
\* once the elapsed time has reached the timeout, the session is over no later
\* than timeout + poll interval after start_time, and when nothing arrived it
\* lasted at least timeout and less than timeout + poll interval.
C8_BoundedSession ==
    /\ [](d_block <= Poll)
    /\ [](d_elapsed <= d_timeout + Poll)
    /\ []((d_pc = "returned" /\ d_received = 0)
            => (d_elapsed >= d_timeout /\ d_elapsed < d_timeout + Poll))
    /\ [][(d_pc = "loop" /\ d_elapsed >= d_timeout) => d_pc' # "loop"]_vars
    /\ (SessionRunning ~> SessionOver)

\* C8 witness: a session that received nothing returned later than its timeout
C8_Witness ==
    /\ d_pc = "returned"
    /\ d_received = 0
    /\ d_timeout > 0
    /\ d_elapsed > d_timeout

\* C9: a malformed datagram never makes a session fail as a whole: a session
\* ends with an error only when a socket call raised.
C9_MalformedDatagramNeverFails ==
    d_pc = "raised" => d_error \in {"setsockopt", "bind", "settimeout", "sendto", "recvfrom"}

\* C10: when an invocation is over, by return or by an error of any socket
\* call of it, the UDP socket it created is closed.
C10_SocketClosedOnExit == SessionOver => d_sock = "closed"

\* a datagram has arrived in this step
Arrived == d_last' # d_last /\ d_last' # NoArrival

\* the datagram decodes to a JSON object whose type is empire_bridge
IsEmpireAnswer(dg) == dg.utf8 /\ dg.json.kind = "object" /\ dg.json.type = "empire_bridge"

\* the entry an Empire answer stands for: the sender's address, the payload's
\* port and name, or 5000 and "Empire Bridge" where the payload has none
EmpireEntry(a) ==
    [ip |-> a.ip,
     port |-> IF a.dg.json.port = Absent THEN "5000" ELSE a.dg.json.port,
     name |-> IF a.dg.json.name = Absent THEN "Empire Bridge" ELSE a.dg.json.name]

EntryOf(dev) == [ip |-> dev.ip, port |-> dev.port, name |-> dev.name]

\* C11: the list of an Empire session holds one entry per datagram that
\* arrived before the deadline and decodes to a JSON object of type
\* empire_bridge, in arrival order and without deduplication: each such
\* arrival appends one entry with the sender's ip and the payload's port and
\* name (defaulted when absent), every other datagram (type missing or
\* different, no object, no JSON, no UTF-8) appends nothing, and no other step
\* of the session changes the list.
C11_EmpireListFollowsArrivals ==
    [][d_family' = "empire" =>
         IF Arrived
         THEN IF IsEmpireAnswer(d_last'.dg)
              THEN /\ Len(d_devices') = Len(d_devices) + 1
                   /\ SubSeq(d_devices', 1, Len(d_devices)) = d_devices
                   /\ EntryOf(d_devices'[Len(d_devices')]) = EmpireEntry(d_last')
                   /\ LoopCondition(d_elapsed, d_timeout)
              ELSE d_devices' = d_devices
         ELSE d_devices' = d_devices \/ (d_pc' = "setup" /\ d_devices' = <<>>)]_vars

\* C11 witness: a returned Empire session lists the same bridge twice, after
\* two equal answers, the second with the default name and port
C11_Witness ==
    /\ d_family = "empire"
    /\ d_pc = "returned"
    /\ Len(d_devices) = 2
    /\ d_devices[1].ip = d_devices[2].ip
    /\ d_devices[1].name = "X"
    /\ d_devices[2].name = "Empire Bridge"
    /\ d_devices[2].port = "5000"

\* the word after key and "=" in the text, "Unknown" when the text has no such key
FieldOf(text, key) ==
    IF \E i \in 1..(Len(text) - 2) : text[i] = key /\ text[i + 1] = "="
    THEN text[(CHOOSE i \in 1..(Len(text) - 2) : text[i] = key /\ text[i + 1] = "=") + 2]
    ELSE "Unknown"

\* C12: in an iTach session every response text that contains AMXB yields a
\* device with port 4999 (whatever the payload says), the sender's ip, uuid
\* equal to the value of the UUID= segment and model equal to the value of the
\* Model= segment, either being "Unknown" when its segment is absent; the
\* answer AMXB<-UUID=abc-Model=EX1- yields uuid abc, model EX1, port 4999.
C12_ItachDeviceFromBeacon ==
    [][(d_family' = "itach" /\ Arrived /\ d_last'.dg.utf8 /\ HasAmxb(d_last'.dg.text)) =>
         /\ Len(d_devices') = Len(d_devices) + 1
         /\ LET dev == d_devices'[Len(d_devices')]
                text == d_last'.dg.text
            IN /\ dev.port = "4999"
               /\ dev.ip = d_last'.ip
               /\ dev.uid = FieldOf(text, "UUID")
               /\ dev.model = FieldOf(text, "Model")
               /\ d_last'.dg = DgAmxb => (dev.uid = "abc" /\ dev.model = "EX1")
               /\ d_last'.dg = DgAmxbBare => (dev.uid = "abc" /\ dev.model = "Unknown")
               /\ d_last'.dg = DgAmxbModel => (dev.uid = "Unknown" /\ dev.model = "iTachIP2IR")]_vars

\* C12 witness: an iTach session has listed the answer with no Model= segment
\* and then the answer AMXB<-UUID=abc-Model=EX1-
C12_Witness ==
    /\ d_family = "itach"
    /\ Len(d_devices) = 2
    /\ d_devices[1].model = "Unknown"
    /\ d_devices[1].uid = "abc"
    /\ d_last.dg = DgAmxb
    /\ d_devices[2].uid = "abc"
    /\ d_devices[2].model = "EX1"
    /\ d_devices[2].port = "4999"

\* C13: discover_all_bridges returns a mapping with exactly the keys empire,
\* itach and other; empire is the list the Empire session returned and other
\* is empty; when the iTach integration module cannot be imported the itach
\* entry is empty and the call returns the Empire results instead of failing:
\* the call fails only when the Empire session itself raised.
C13_AllBridgesMapping ==
    /\ [](a_pc = "returned" =>
            /\ DOMAIN a_results = {"empire", "itach", "other"}
            /\ a_results.other = <<>>
            /\ ~a_import => /\ a_results.itach = <<>>
                             /\ d_family = "empire"
                             /\ d_pc = "returned"
                             /\ a_results.empire = d_devices)
    /\ [][(a_pc = "empire" /\ a_pc' \in {"itach", "returned"}) =>
             (d_family = "empire" /\ d_pc = "returned" /\ a_results'.empire = d_devices)]_vars
    /\ [][a_pc = "itach" => a_results'.empire = a_results.empire]_vars
    /\ [][(a_pc = "empire" /\ a_pc' # "empire" /\ d_pc = "returned" /\ ~a_import) =>
             a_pc' = "returned"]_vars
    /\ [](a_pc = "raised" => (d_family = "empire" /\ d_pc = "raised"))

\* C13 witness: with the iTach module unavailable the call has returned a
\* bridge in empire and nothing in itach
C13_Witness ==
    /\ a_pc = "returned"
    /\ ~a_import
    /\ Len(a_results.empire) >= 1
    /\ a_results.empire[1].name = "X"
    /\ a_results.itach = <<>>

\* ticks since discover_all_bridges was called
AllElapsed == IF d_family = "itach" THEN a_spent + d_elapsed ELSE d_elapsed

\* C19: in discover_all_bridges the Empire session and the iTach session run
\* concurrently, so that a call that returned took no longer than timeout +
\* poll interval, rather than the sum of the two sessions' durations.
C19_SessionsConcurrent == a_pc = "returned" => AllElapsed <= d_timeout + Poll

----------------------------------------------------------------------------
(* C14..C18: encoding, publication and the bridge relay                    *)

\* the last call was handle_link_command with a link id that names a
\* configured zone and one of the six commands: a resolved action
Resolved ==
    /\ lastOp.op = "handle_link_command"
    /\ WellShaped(lastOp.link)
    /\ ZonePart(lastOp.link) \in ConfiguredIds
    /\ CommandPart(lastOp.link) \in KnownCommands

\* which of the three actions the command part names
Names(kind) ==
    CommandPart(lastOp.link) \in
        (CASE kind = "volume" -> { <<"volume">>, <<"set", "_", "volume">> }
           [] kind = "mute" -> { <<"mute">>, <<"toggle", "_", "mute">> }
           [] kind = "source" -> { <<"source">>, <<"set", "_", "source">> })

\* the value is a number (or a boolean, which Python counts as one)
Numeric(v) == v.k \in {"int", "float", "bool"}

\* a resolved action whose value can be converted for its command
ResolvedAction == Resolved /\ (Names("mute") \/ Numeric(lastOp.value))

\* the commands that left the instance, on a transport or through the relay
Sent(ev) == SelectSeq(ev, LAMBDA e : e.e \in {"write", "relay"})

\* the module the zone of the link id configures for the named action
ModuleOf(kind) ==
    LET zc == zones[CHOOSE i \in DOMAIN zones : zones[i].id = ZonePart(lastOp.link)]
        m == CASE kind = "volume" -> zc.volume_module
               [] kind = "mute" -> zc.mute_module
               [] kind = "source" -> zc.source_module
    IN IF m # Absent THEN m ELSE IF kind = "source" THEN "Selector 1" ELSE "Main Volume"

\* the level asked for, in halves of a dB, and the source asked for
AskedLevel ==
    CASE lastOp.value.k = "int" -> 2 * lastOp.value.n
      [] lastOp.value.k = "float" -> lastOp.value.n
      [] OTHER -> IF lastOp.value.b THEN 2 ELSE 0
AskedSource ==
    CASE lastOp.value.k = "int" -> lastOp.value.n
      [] lastOp.value.k = "float" ->
            IF lastOp.value.n >= 0 THEN lastOp.value.n \div 2 ELSE -((-lastOp.value.n) \div 2)
      [] OTHER -> IF lastOp.value.b THEN 1 ELSE 0

\* the clamp of the claim: below the range the lower end, above it the upper end
ClampedLevel ==
    IF AskedLevel < VolMinHalves THEN VolMinHalves
    ELSE IF AskedLevel > VolMaxHalves THEN VolMaxHalves ELSE AskedLevel
ClampedSource ==
    IF AskedSource < SourceMin THEN SourceMin
    ELSE IF AskedSource > SourceMax THEN SourceMax ELSE AskedSource

\* a level in halves of a dB as Python prints the float
LevelText(h) ==
    CASE h = -121 -> "-60.5"
      [] h = 24 -> "12.0"
      [] h = -20 -> "-10.0"
      [] h = 0 -> "0.0"
      [] h = 1 -> "0.5"
      [] h = 10 -> "5.0"
      [] OTHER -> "?"
SourceText(n) ==
    CASE n = 1 -> "1"
      [] n = 5 -> "5"
      [] n = 16 -> "16"
      [] OTHER -> "?"

\* the command text of the resolved action with index and payload
Wire(kind, index, payload) == "SA\"" \o ModuleOf(kind) \o "\">" \o index \o ">" \o payload \o "\r"

\* C14: the value carried by the encoded command and by the publication of a
\* resolved action is the clamp of the input: a level below -60.5 becomes
\* -60.5, above 12.0 becomes 12.0 and a level in the range passes unchanged
\* (-100 gives -60.5, +100 gives 12.0); a source below 1 becomes 1, above 16
\* becomes 16 (0 gives 1, 99 gives 16).
C14_ClampedValueCarried ==
    /\ (ResolvedAction /\ Names("volume")) =>
          \A i \in DOMAIN lastOp.events :
              /\ lastOp.events[i].e \in {"write", "relay"} =>
                    lastOp.events[i].data = Wire("volume", "1", LevelText(ClampedLevel))
              /\ lastOp.events[i].e = "publish" =>
                    lastOp.events[i].value = FloatV(ClampedLevel)
              /\ lastOp.value = FloatV(-200) => ClampedLevel = -121
              /\ lastOp.value = IntV(100) => ClampedLevel = 24
              /\ lastOp.value = IntV(-10) => ClampedLevel = -20
    /\ (ResolvedAction /\ Names("source")) =>
          \A i \in DOMAIN lastOp.events :
              /\ lastOp.events[i].e \in {"write", "relay"} =>
                    lastOp.events[i].data = Wire("source", "1", SourceText(ClampedSource))
              /\ lastOp.events[i].e = "publish" =>
                    lastOp.events[i].value = IntV(ClampedSource)
              /\ lastOp.value = IntV(0) => ClampedSource = 1
              /\ lastOp.value = IntV(5) => ClampedSource = 5
              /\ lastOp.value = IntV(99) => ClampedSource = 16

\* C14 witness: a connected serial instance was asked for -100 dB on master
\* and wrote and published -60.5
C14_Witness ==
    /\ lastOp.op = "handle_link_command"
    /\ lastOp.link = LinkId(<<"master">>, <<"set", "_", "volume">>)
    /\ lastOp.value = FloatV(-200)
    /\ Len(lastOp.events) = 2
    /\ lastOp.events[1].e = "write"
    /\ lastOp.events[1].data = "SA\"Main Volume\">1>-60.5\r"
    /\ lastOp.events[2] = EvPublish(<<"master">>, "volume", FloatV(-121))

PublicationDue ==
    CASE Names("volume") -> EvPublish(ZonePart(lastOp.link), "volume", FloatV(ClampedLevel))
      [] Names("mute") ->
            EvPublish(ZonePart(lastOp.link), "mute",
                      BoolV(lastOp.value \notin {IntV(0), FloatV(0), BoolV(FALSE)}))
      [] Names("source") -> EvPublish(ZonePart(lastOp.link), "source", IntV(ClampedSource))

C16_OnlyTransportFailuresRaise ==
    lastOp.op = "handle_link_command" => lastOp.raised \in {"none", "ConnectionError", "TransportError"}

\* the mute state asked for: bool(value)
AskedMute == lastOp.value \notin {IntV(0), FloatV(0), BoolV(FALSE)}

\* C17: every command that leaves the instance for a resolved action carries
\* index 1 when it changes a level or a source and index 2 when it changes a
\* mute; the payload of a mute command is O when the mute state asked for is
\* true and F when it is false, and the mute publication carries that boolean.
C17_IndexAndMutePayload ==
    ResolvedAction =>
        \A i \in DOMAIN lastOp.events :
            /\ lastOp.events[i].e \in {"write", "relay"} =>
                  lastOp.events[i].data =
                      CASE Names("volume") -> Wire("volume", "1", FmtFloat(ClampedLevel))
                        [] Names("source") -> Wire("source", "1", FmtInt(ClampedSource))
                        [] Names("mute") -> Wire("mute", "2", IF AskedMute THEN "O" ELSE "F")
            /\ (lastOp.events[i].e = "publish" /\ Names("mute")) =>
                  lastOp.events[i].value = BoolV(AskedMute)

\* C17 witness: a connected instance asked to unmute master wrote index 2
\* with payload F and published false
C17_Witness ==
    /\ lastOp.op = "handle_link_command"
    /\ lastOp.link = LinkId(<<"master">>, <<"toggle", "_", "mute">>)
    /\ lastOp.value = IntV(0)
    /\ Len(lastOp.events) = 2
    /\ lastOp.events[1].e = "write"
    /\ lastOp.events[1].data = "SA\"Main Volume\">2>F\r"
    /\ lastOp.events[2] = EvPublish(<<"master">>, "mute", BoolV(FALSE))

\* C18: on a bridge instance connect() opens no port and no socket and no
\* call holds or opens a transport, and every send_command forwards the
\* command exactly once to the relay on bridges/<bridge_id>/command and
\* returns: no command is dropped.
C18_BridgeRelaysEveryCommand ==
    connType = "bridge" =>
        /\ HoldsNothing
        /\ live = {}
        /\ lastOp.op = "connect" => (lastOp.events = <<>> /\ lastOp.raised = "none")
        /\ lastOp.op = "send_command" =>
              /\ lastOp.raised = "none"
              /\ lastOp.events =
                    <<EvRelay("bridges/b1/command", Join(ReplaceCR(lastOp.cmd)))>>

----------------------------------------------------------------------------
(* C20: serialized calls                                                   *)

\* the command a call of the sequence stands for, as it goes on the wire
CommandDue(c) ==
    CASE c.link = LinkId(<<"master">>, <<"set", "_", "volume">>) /\ c.value = IntV(-10) ->
            "SA\"Main Volume\">1>-10.0\r"
      [] c.link = LinkId(<<"master">>, <<"set", "_", "volume">>) /\ c.value = IntV(0) ->
            "SA\"Main Volume\">1>0.0\r"
      [] c.link = LinkId(<<"master">>, <<"toggle", "_", "mute">>) /\ c.value = IntV(0) ->
            "SA\"Main Volume\">2>F\r"
      [] c.link = LinkId(<<"master">>, <<"toggle", "_", "mute">>) -> "SA\"Main Volume\">2>O\r"
      [] OTHER -> "?"

\* the state a call of the sequence publishes
StateDue(c) ==
    IF c.link = LinkId(<<"master">>, <<"set", "_", "volume">>)
    THEN EvPublish(<<"master">>, "volume", FloatV(2 * c.value.n))
    ELSE EvPublish(<<"master">>, "mute", BoolV(c.value # IntV(0)))

\* the call resolved to an action and got through: its write did not fail
\* (and its value was a number where one is needed)
WentThrough(c) == c.link # LinkId(<<"master">>, <<"bogus">>) /\ c.raised = "none"

RECURSIVE WireDue(_)
\* what the calls put on the wire and publish when each is done before the next
WireDue(calls) ==
    IF calls = <<>> THEN <<>>
    ELSE LET c == calls[Len(calls)]
         IN WireDue(SubSeq(calls, 1, Len(calls) - 1))
                \o (IF WentThrough(c) THEN <<EvWrite(0, CommandDue(c)), StateDue(c)>> ELSE <<>>)

\* C20: when the calls of handle_link_command on a connected instance are
\* made one after the other, the commands on the wire are the commands of
\* the resolved calls that went through, in call order, none reordered,
\* doubled or merged, and the publication of each call comes after its write
\* and before the write of the next call.
C20_WireOrderIsCallOrder ==
    (\A i \in DOMAIN w_calls : w_calls[i].held) =>
        /\ Len(w_log) = Len(WireDue(w_calls))
        /\ \A i \in DOMAIN w_log : [w_log[i] EXCEPT !.h = 0] = WireDue(w_calls)[i]

\* C20 witness: two calls on a connected instance, a level and then a mute,
\* gave two writes in that order, each followed by its publication
C20_Witness ==
    /\ Len(w_calls) = 2
    /\ \A i \in DOMAIN w_calls : w_calls[i].held /\ WentThrough(w_calls[i])
    /\ Len(w_log) = 4
    /\ w_log[1].data = "SA\"Main Volume\">1>-10.0\r"
    /\ w_log[2].e = "publish"
    /\ w_log[3].data = "SA\"Main Volume\">2>O\r"
    /\ w_log[4].e = "publish"

----------------------------------------------------------------------------
(* C21..C22: listed links, and publications without a write                *)

\* the parameter the k-th link of a zone stands for
KindOf(k) == <<"volume", "mute", "source">>[k]

\* C21: every link id that get_links returns, handed to handle_link_command
\* with a numeric value, resolves to the zone it was generated for and to the
\* action of its kind: a call that did not raise has published that zone and
\* parameter. This holds for every configuration, the empty zone list (a
\* default master zone is listed) and zone ids that hold "_" included.
C21_ListedLinksResolve ==
    \A i \in DOMAIN ListedZones, k \in 1..3 :
        ( /\ lastOp.op = "handle_link_command"
          /\ lastOp.link = GetLinks[3 * (i - 1) + k].id
          /\ lastOp.value.k \in {"int", "float"}
          /\ lastOp.raised = "none" )
        => /\ Len(Publications(lastOp.events)) = 1
           /\ Publications(lastOp.events)[1].zone = ListedZones[i].id
           /\ Publications(lastOp.events)[1].param = KindOf(k)

\* C22: every state publication of a call was preceded, within the same
\* call, by a write of a command to a serial port, a TCP stream or the relay.
C22_NoPublicationWithoutWrite ==
    \A i \in DOMAIN lastOp.events :
        lastOp.events[i].e = "publish" =>
            \E j \in 1..(i - 1) : lastOp.events[j].e \in {"write", "relay"}

----------------------------------------------------------------------------
(* C23: tasks that are not serialized                                      *)

\* the places of task t's writes and publications in the log
WritesOf(t) == { i \in DOMAIN t_log : t_log[i].task = t /\ t_log[i].ev.e = "write" }
PublicationsOf(t) == { i \in DOMAIN t_log : t_log[i].task = t /\ t_log[i].ev.e = "publish" }

\* the command and the state a task's call stands for
TaskCommandDue(t) ==
    IF t_call[t].value = IntV(-10) THEN "SA\"Main Volume\">1>-10.0\r"
    ELSE "SA\"Main Volume\">1>0.0\r"
TaskStateDue(t) == EvPublish(<<"master">>, "volume", FloatV(2 * t_call[t].value.n))

\* C23: when calls of handle_link_command for one zone parameter run as
\* concurrent tasks on a tcp instance, interleaving at the await of the
\* flush, their publications come in the order of their writes: of two tasks
\* that both wrote and published, the one that wrote first published first,
\* so the last published value is that of the last command written.
C23_PublicationOrderIsWriteOrder ==
    \A a \in Tasks, b \in Tasks :
        \A wa \in WritesOf(a), wb \in WritesOf(b), pa \in PublicationsOf(a), pb \in PublicationsOf(b) :
            wa < wb => pa <= pb

\* C23, amended: each task writes its own command whole, at most once, and
\* publishes its own value at most once and only after its own write when it
\* wrote; a task that raised after its write published nothing. The order of
\* the publications of different tasks is not tied to the order of their
\* writes: a task suspended in the flush publishes after every task that ran
\* meanwhile, so the last published value can be that of an earlier command.
C23_OwnWriteBeforeOwnPublication ==
    \A t \in Tasks :
        /\ Cardinality(WritesOf(t)) <= 1
        /\ Cardinality(PublicationsOf(t)) <= 1
        /\ \A w \in WritesOf(t) : t_log[w].ev.data = TaskCommandDue(t)
        /\ \A q \in PublicationsOf(t) :
              /\ t_log[q].ev = TaskStateDue(t)
              /\ \A i \in DOMAIN t_log : (t_log[i].task = t /\ i # q) => i < q
        /\ t_pc[t] = "raised" => PublicationsOf(t) = {}
        /\ (t_pc[t] = "done" /\ t_call[t].link # <<>>) => Cardinality(PublicationsOf(t)) = 1
        /\ t_pc[t] = "draining" => (Cardinality(WritesOf(t)) = 1 /\ PublicationsOf(t) = {})

\* C23 witness: task 1 wrote -10.0 first and task 2 wrote 0.0 second, task 2
\* published first and task 1 last: the last published level is not the
\* level of the last command on the wire
C23_Witness ==
    /\ Len(t_log) = 4
    /\ t_log[1] = [task |-> 1, ev |-> EvWrite(writer, "SA\"Main Volume\">1>-10.0\r")]
    /\ t_log[2].task = 2
    /\ t_log[2].ev.data = "SA\"Main Volume\">1>0.0\r"
    /\ t_log[3] = [task |-> 2, ev |-> EvPublish(<<"master">>, "volume", FloatV(0))]
    /\ t_log[4] = [task |-> 1, ev |-> EvPublish(<<"master">>, "volume", FloatV(-20))]

====
